---- MODULE Spec2Model ----
(***************************************************************************)
(* The in-memory storage backend MockDB (core/src/ledger/storage/mockdb.rs) *)
(* as a state machine: the BTreeMap<String, Vec<u8>> behind the RefCell,    *)
(* the block read/write operations, the subspace operations with their      *)
(* batch variants, and the gas-metered prefix iterators.                    *)
(*                                                                          *)
(* A String is a sequence of byte codes (ASCII), so that the map's key      *)
(* order, starts_with, strip_prefix, split and the decimal formatting of    *)
(* heights are the byte-wise operations of the code. A Vec<u8> is a         *)
(* sequence of bytes. An Option is <<>> (None) or <<x>> (Some(x)).          *)
(***************************************************************************)
EXTENDS Integers, Sequences, FiniteSets, TLC

VARIABLES db, last, hist, sub, shadow, wb, iter, borrow, thr, acct

vars == <<db, last, hist, sub, shadow, wb, iter, borrow, thr, acct>>

-----------------------------------------------------------------------------
(* Options and results *)

None == <<>>

Some(x) == <<x>>

Ok(v) == [kind |-> "Ok", val |-> v]

Err(e) == [kind |-> "Err", val |-> e]

Panic == [kind |-> "Panic", val |-> "range start is greater than range end"]

-----------------------------------------------------------------------------
(* Strings *)

KEY_SEGMENT_SEPARATOR == 47

S_sep == <<KEY_SEGMENT_SEPARATOR>>

S_height == <<104, 101, 105, 103, 104, 116>>

S_next_epoch_min_start_height ==
    <<110, 101, 120, 116, 95, 101, 112, 111, 99, 104, 95, 109, 105, 110, 95,
      115, 116, 97, 114, 116, 95, 104, 101, 105, 103, 104, 116>>

S_next_epoch_min_start_time ==
    <<110, 101, 120, 116, 95, 101, 112, 111, 99, 104, 95, 109, 105, 110, 95,
      115, 116, 97, 114, 116, 95, 116, 105, 109, 101>>

S_results == <<114, 101, 115, 117, 108, 116, 115>>

S_results_slash == <<114, 101, 115, 117, 108, 116, 115, 47>>

S_subspace == <<115, 117, 98, 115, 112, 97, 99, 101>>

S_subspace_slash == <<115, 117, 98, 115, 112, 97, 99, 101, 47>>

S_tree == <<116, 114, 101, 101>>

S_root == <<114, 111, 111, 116>>

S_store == <<115, 116, 111, 114, 101>>

S_header == <<104, 101, 97, 100, 101, 114>>

S_hash == <<104, 97, 115, 104>>

S_epoch == <<101, 112, 111, 99, 104>>

S_pred_epochs == <<112, 114, 101, 100, 95, 101, 112, 111, 99, 104, 115>>

S_address_gen == <<97, 100, 100, 114, 101, 115, 115, 95, 103, 101, 110>>

\* String's Ord: byte-wise lexicographic, a proper prefix sorts first.
RECURSIVE StrLess(_, _)
StrLess(a, b) ==
    IF b = <<>> THEN FALSE
    ELSE IF a = <<>> THEN TRUE
    ELSE IF Head(a) # Head(b) THEN Head(a) < Head(b)
    ELSE StrLess(Tail(a), Tail(b))

StrLeq(a, b) == a = b \/ StrLess(a, b)

\* str::starts_with
starts_with(s, p) == Len(p) <= Len(s) /\ SubSeq(s, 1, Len(p)) = p

\* str::strip_prefix: Some(rest) when s starts with p, None otherwise
strip_prefix(s, p) ==
    IF starts_with(s, p) THEN Some(SubSeq(s, Len(p) + 1, Len(s))) ELSE None

\* str::split(KEY_SEGMENT_SEPARATOR).collect(): the segments between the
\* separators (one more segment than there are separators)
RECURSIVE split(_)
split(s) ==
    IF \A i \in 1..Len(s) : s[i] # KEY_SEGMENT_SEPARATOR THEN <<s>>
    ELSE LET i == CHOOSE j \in 1..Len(s) :
                      /\ s[j] = KEY_SEGMENT_SEPARATOR
                      /\ \A l \in 1..(j - 1) : s[l] # KEY_SEGMENT_SEPARATOR
         IN  <<SubSeq(s, 1, i - 1)>> \o split(SubSeq(s, i + 1, Len(s)))

\* format!("{}", n) of an unsigned integer: its decimal digits
RECURSIVE ToDecimal(_)
ToDecimal(n) ==
    IF n < 10 THEN <<48 + n>> ELSE ToDecimal(n \div 10) \o <<48 + (n % 10)>>

-----------------------------------------------------------------------------
(* Keys: a Key is a sequence of segments, each a String *)

\* Key's Display: the segments joined by the separator
RECURSIVE KeyToString(_)
KeyToString(key) ==
    IF key = <<>> THEN <<>>
    ELSE IF Len(key) = 1 THEN key[1]
    ELSE key[1] \o S_sep \o KeyToString(Tail(key))

\* Key::push
push(key, seg) == Append(key, seg)

\* Key::join
join(ns, key) == ns \o key

\* Key::from(height.to_db_key())
HeightKey(h) == <<ToDecimal(h)>>

-----------------------------------------------------------------------------
(* The map *)

\* BTreeMap::get
Get(d, k) == IF k \in DOMAIN d THEN Some(d[k]) ELSE None

\* BTreeMap::insert (the map after it; the previous value is Get(d, k))
Insert(d, k, v) == [x \in DOMAIN d \cup {k} |-> IF x = k THEN v ELSE d[x]]

\* BTreeMap::remove (the map after it; the removed value is Get(d, k))
Remove(d, k) == [x \in DOMAIN d \ {k} |-> d[x]]

\* The keys of a set in the map's order
RECURSIVE SortedKeys(_)
SortedKeys(S) ==
    IF S = {} THEN <<>>
    ELSE LET m == CHOOSE x \in S : \A y \in S : StrLeq(x, y)
         IN  <<m>> \o SortedKeys(S \ {m})

EmptyDB == [x \in {} |-> <<>>]

-----------------------------------------------------------------------------
(* Stored values. The codecs (types::encode / types::decode, Borsh for the   *)
(* header, the Merkle store codec) and the StoreType enumeration live        *)
(* outside mockdb.rs: a value is a small number, its encoding is the one     *)
(* byte holding it, and decoding fails on anything that is not one byte.    *)

encode(x) == <<x>>

decodable(bytes) == Len(bytes) = 1

decode(bytes) == bytes[1]

\* StoreType::iter(), each with its to_string()
StoreTypes == << <<98, 97, 115, 101>>, <<97, 99, 99, 111, 117, 110, 116>> >>

StoreTypeSet == {StoreTypes[i] : i \in 1..Len(StoreTypes)}

\* StoreType::from_str succeeds on the names of the enumeration only
from_str_ok(s) == s \in StoreTypeSet

\* MerkleTreeStoresRead::default()
MerkleTreeStoresDefault == [st \in StoreTypeSet |-> [root |-> 0, store |-> 0]]

set_root(mts, st, root) == [mts EXCEPT ![st].root = root]

set_store(mts, st, store) == [mts EXCEPT ![st].store = store]

-----------------------------------------------------------------------------
(* write_block *)

\* the loop over StoreType::iter(): root and store of every store type
RECURSIVE WriteTrees(_, _, _, _)
WriteTrees(d, tree_key, merkle_tree_stores, sts) ==
    IF sts = <<>> THEN d
    ELSE LET st         == Head(sts)
             prefix_key == push(tree_key, st)
             root_key   == push(prefix_key, S_root)
             d1         == Insert(d, KeyToString(root_key),
                                  encode(merkle_tree_stores[st].root))
             store_key  == push(prefix_key, S_store)
             d2         == Insert(d1, KeyToString(store_key),
                                  encode(merkle_tree_stores[st].store))
         IN  WriteTrees(d2, tree_key, merkle_tree_stores, Tail(sts))

\* the map after write_block(state)
WriteBlock(d, state) ==
    LET d1 == Insert(d, S_next_epoch_min_start_height,
                     encode(state.next_epoch_min_start_height))
        d2 == Insert(d1, S_next_epoch_min_start_time,
                     encode(state.next_epoch_min_start_time))
        prefix_key == HeightKey(state.height)
        d3 == WriteTrees(d2, push(prefix_key, S_tree),
                         state.merkle_tree_stores, StoreTypes)
        d4 == IF state.header # None
              THEN Insert(d3, KeyToString(push(prefix_key, S_header)),
                          encode(state.header[1]))
              ELSE d3
        d5 == Insert(d4, KeyToString(push(prefix_key, S_hash)),
                     encode(state.hash))
        d6 == Insert(d5, KeyToString(push(prefix_key, S_epoch)),
                     encode(state.epoch))
        d7 == Insert(d6, KeyToString(push(prefix_key, S_pred_epochs)),
                     encode(state.pred_epochs))
        d8 == Insert(d7, KeyToString(push(prefix_key, S_address_gen)),
                     encode(state.address_gen))
        d9 == Insert(d8, S_height, encode(state.height))
        results_path == S_results_slash \o ToDecimal(state.height)
    IN  Insert(d9, results_path, encode(state.results))

-----------------------------------------------------------------------------
(* read_last_block *)

CodingError == [error |-> "CodingError", key |-> <<>>]

StoreTypeError == [error |-> "StoreTypeError", key |-> <<>>]

Temporary == [error |-> "Temporary", key |-> <<>>]

\* unknown_key_error
unknown_key_error(path) == [error |-> "UnknownKey", key |-> path]

\* BTreeMap::range((Included(lo), Excluded(hi))): the keys in map order;
\* the call panics when lo > hi
RangeKeys(d, lo, hi) ==
    SortedKeys({k \in DOMAIN d : StrLeq(lo, k) /\ StrLess(k, hi)})

\* One iteration of the loop over the entries at the height. acc holds the
\* locals merkle_tree_stores, hash, epoch, pred_epochs, address_gen and the
\* error of an early return (err).
LoadEntry(acc, path, bytes) ==
    LET segments == split(path)
        fail(e)  == [acc EXCEPT !.err = Some(e)]
    IN  IF Len(segments) < 2 THEN fail(unknown_key_error(path))
        ELSE IF segments[2] = S_tree THEN
            IF Len(segments) < 3 THEN fail(unknown_key_error(path))
            ELSE IF ~from_str_ok(segments[3]) THEN fail(StoreTypeError)
            ELSE IF Len(segments) >= 4 /\ segments[4] = S_root THEN
                IF decodable(bytes)
                THEN [acc EXCEPT !.merkle_tree_stores =
                          set_root(@, segments[3], decode(bytes))]
                ELSE fail(CodingError)
            ELSE IF Len(segments) >= 4 /\ segments[4] = S_store THEN
                IF decodable(bytes)
                THEN [acc EXCEPT !.merkle_tree_stores =
                          set_store(@, segments[3], decode(bytes))]
                ELSE fail(CodingError)
            ELSE fail(unknown_key_error(path))
        ELSE IF segments[2] = S_header THEN acc
        ELSE IF segments[2] \in {S_hash, S_epoch, S_pred_epochs, S_address_gen}
        THEN IF ~decodable(bytes) THEN fail(CodingError)
             ELSE IF segments[2] = S_hash
                  THEN [acc EXCEPT !.hash = Some(decode(bytes))]
             ELSE IF segments[2] = S_epoch
                  THEN [acc EXCEPT !.epoch = Some(decode(bytes))]
             ELSE IF segments[2] = S_pred_epochs
                  THEN [acc EXCEPT !.pred_epochs = Some(decode(bytes))]
             ELSE [acc EXCEPT !.address_gen = Some(decode(bytes))]
        ELSE fail(unknown_key_error(path))

\* the loop "for (path, bytes) in range", left at the first error
RECURSIVE LoadEntries(_, _, _)
LoadEntries(d, paths, acc) ==
    IF paths = <<>> \/ acc.err # None THEN acc
    ELSE LoadEntries(d, Tail(paths), LoadEntry(acc, Head(paths), d[Head(paths)]))

LoadInit ==
    [merkle_tree_stores |-> MerkleTreeStoresDefault, hash |-> None,
     epoch |-> None, pred_epochs |-> None, address_gen |-> None, err |-> None]

\* "Load data at the height": the range scan and the final match
LoadAtHeight(d, height, results, min_start_height, min_start_time) ==
    LET prefix       == ToDecimal(height) \o S_sep
        upper_prefix == ToDecimal(height + 1) \o S_sep
    IN  IF StrLess(upper_prefix, prefix) THEN Panic
        ELSE LET acc == LoadEntries(d, RangeKeys(d, prefix, upper_prefix),
                                    LoadInit)
             IN  IF acc.err # None THEN Err(acc.err[1])
                 ELSE IF /\ acc.hash # None
                         /\ acc.epoch # None
                         /\ acc.pred_epochs # None
                         /\ acc.address_gen # None
                 THEN Ok(Some(
                        [merkle_tree_stores |-> acc.merkle_tree_stores,
                         hash |-> acc.hash[1],
                         height |-> height,
                         epoch |-> acc.epoch[1],
                         pred_epochs |-> acc.pred_epochs[1],
                         next_epoch_min_start_height |-> min_start_height,
                         next_epoch_min_start_time |-> min_start_time,
                         address_gen |-> acc.address_gen[1],
                         results |-> results]))
                 ELSE Err(Temporary)

\* read_last_block with a missing height marker reported as an error
ReadLastBlock_AbsentTemporary(d) ==
    IF Get(d, S_height) = None THEN Err(Temporary)
    ELSE IF ~decodable(d[S_height]) THEN Err(CodingError)
    ELSE LET height       == decode(d[S_height])
             results_path == S_results_slash \o ToDecimal(height)
         IN  IF Get(d, results_path) = None THEN Ok(None)
             ELSE IF ~decodable(d[results_path]) THEN Err(CodingError)
             ELSE IF Get(d, S_next_epoch_min_start_height) = None
                  THEN Ok(None)
             ELSE IF ~decodable(d[S_next_epoch_min_start_height])
                  THEN Err(CodingError)
             ELSE IF Get(d, S_next_epoch_min_start_time) = None THEN Ok(None)
             ELSE IF ~decodable(d[S_next_epoch_min_start_time])
                  THEN Err(CodingError)
             ELSE LoadAtHeight(d, height, decode(d[results_path]),
                               decode(d[S_next_epoch_min_start_height]),
                               decode(d[S_next_epoch_min_start_time]))

\* the result of read_last_block on map d
ReadLastBlock(d) ==
    IF Get(d, S_height) = None THEN Ok(None)
    ELSE IF ~decodable(d[S_height]) THEN Err(CodingError)
    ELSE LET height       == decode(d[S_height])
             results_path == S_results_slash \o ToDecimal(height)
         IN  IF Get(d, results_path) = None THEN Ok(None)
             ELSE IF ~decodable(d[results_path]) THEN Err(CodingError)
             ELSE IF Get(d, S_next_epoch_min_start_height) = None
                  THEN Ok(None)
             ELSE IF ~decodable(d[S_next_epoch_min_start_height])
                  THEN Err(CodingError)
             ELSE IF Get(d, S_next_epoch_min_start_time) = None THEN Ok(None)
             ELSE IF ~decodable(d[S_next_epoch_min_start_time])
                  THEN Err(CodingError)
             ELSE LoadAtHeight(d, height, decode(d[results_path]),
                               decode(d[S_next_epoch_min_start_height]),
                               decode(d[S_next_epoch_min_start_time]))

-----------------------------------------------------------------------------
(* read_block_header, read_merkle_tree_stores *)

\* the result of read_block_header(height) on map d
ReadBlockHeader(d, height) ==
    LET key   == push(HeightKey(height), S_header)
        value == Get(d, KeyToString(key))
    IN  IF value = None THEN Ok(None)
        ELSE IF decodable(value[1]) THEN Ok(Some(decode(value[1])))
        ELSE Err([error |-> "BorshCodingError", key |-> <<>>])

\* a loop that keeps the default root and store of a store type whose
\* entries are missing
RECURSIVE ReadTrees_Partial(_, _, _, _)
ReadTrees_Partial(d, tree_key, merkle_tree_stores, sts) ==
    IF sts = <<>> THEN Ok(Some(merkle_tree_stores))
    ELSE LET st         == Head(sts)
             prefix_key == push(tree_key, st)
             root       == Get(d, KeyToString(push(prefix_key, S_root)))
             store      == Get(d, KeyToString(push(prefix_key, S_store)))
         IN  IF root = None \/ store = None
             THEN ReadTrees_Partial(d, tree_key, merkle_tree_stores, Tail(sts))
             ELSE ReadTrees_Partial(d, tree_key,
                                    set_store(set_root(merkle_tree_stores, st,
                                                       decode(root[1])),
                                              st, decode(store[1])),
                                    Tail(sts))

\* the loop over StoreType::iter() of read_merkle_tree_stores
RECURSIVE ReadTrees(_, _, _, _)
ReadTrees(d, tree_key, merkle_tree_stores, sts) ==
    IF sts = <<>> THEN Ok(Some(merkle_tree_stores))
    ELSE LET st         == Head(sts)
             prefix_key == push(tree_key, st)
             root       == Get(d, KeyToString(push(prefix_key, S_root)))
             store      == Get(d, KeyToString(push(prefix_key, S_store)))
         IN  IF root = None THEN Ok(None)
             ELSE IF ~decodable(root[1]) THEN Err(CodingError)
             ELSE IF store = None THEN Ok(None)
             ELSE IF ~decodable(store[1]) THEN Err(CodingError)
             ELSE ReadTrees(d, tree_key,
                            set_store(set_root(merkle_tree_stores, st,
                                               decode(root[1])),
                                      st, decode(store[1])),
                            Tail(sts))

\* the result of read_merkle_tree_stores(height) on map d
ReadMerkleTreeStores(d, height) ==
    ReadTrees(d, push(HeightKey(height), S_tree), MerkleTreeStoresDefault,
              StoreTypes)

-----------------------------------------------------------------------------
(* Subspace operations: each gives the map after the call and its result *)

\* Key::parse("subspace")?.join(key).to_string()
\* the key stored without the "subspace" namespace
SubspaceKey_NoNamespace(key) == KeyToString(key)

SubspaceKey(key) == KeyToString(join(<<S_subspace>>, key))

\* a read that leaves out the subspace namespace
ReadSubspaceVal_NoNamespace(d, key) == Ok(Get(d, KeyToString(key)))

ReadSubspaceVal(d, key) == Ok(Get(d, SubspaceKey(key)))

\* a write that returns the new length without subtracting the old one
WriteSubspaceVal_NoPrev(d, key, value) ==
    [db  |-> Insert(d, SubspaceKey(key), value), ret |-> Ok(Len(value))]

WriteSubspaceVal(d, key, value) ==
    LET k           == SubspaceKey(key)
        current_len == Len(value)
        prev        == Get(d, k)
    IN  [db  |-> Insert(d, k, value),
         ret |-> Ok(IF prev # None THEN current_len - Len(prev[1])
                    ELSE current_len)]

\* a delete that leaves an empty entry behind
DeleteSubspaceVal_Tombstone(d, key) ==
    LET k    == SubspaceKey(key)
        prev == Get(d, k)
    IN  [db  |-> Insert(d, k, <<>>),
         ret |-> Ok(IF prev # None THEN Len(prev[1]) ELSE 0)]

DeleteSubspaceVal(d, key) ==
    LET k    == SubspaceKey(key)
        prev == Get(d, k)
    IN  [db  |-> Remove(d, k),
         ret |-> Ok(IF prev # None THEN Len(prev[1]) ELSE 0)]

\* a batch write that computes the delta but leaves the write to exec_batch
BatchWriteSubspaceVal_Staged(d, key, value) ==
    LET prev == Get(d, SubspaceKey(key))
    IN  [db  |-> d,
         ret |-> Ok(IF prev # None THEN Len(value) - Len(prev[1])
                    ELSE Len(value))]

BatchWriteSubspaceVal(d, key, value) ==
    LET k           == SubspaceKey(key)
        current_len == Len(value)
        prev        == Get(d, k)
    IN  [db  |-> Insert(d, k, value),
         ret |-> Ok(IF prev # None THEN current_len - Len(prev[1])
                    ELSE current_len)]

\* a batch delete that reports no bytes freed
BatchDeleteSubspaceVal_NoFree(d, key) ==
    [db  |-> Remove(d, SubspaceKey(key)), ret |-> Ok(0)]

BatchDeleteSubspaceVal(d, key) ==
    LET k    == SubspaceKey(key)
        prev == Get(d, k)
    IN  [db  |-> Remove(d, k),
         ret |-> Ok(IF prev # None THEN Len(prev[1]) ELSE 0)]

\* exec_batch: nothing to do, the batch calls have written already
\* an exec_batch that drops the subspace entries
ExecBatch_Clear(d) ==
    [db  |-> [x \in {k \in DOMAIN d : ~starts_with(k, S_subspace_slash)} |-> d[x]],
     ret |-> Ok(None)]

ExecBatch(d) == [db |-> d, ret |-> Ok(None)]

-----------------------------------------------------------------------------
(* Iterators *)

\* self.0.borrow().clone().into_iter(): an owning iterator over a copy of
\* the map, in key order; pos is the key of the entry consumed last
IntoIter(d) == [map |-> d, pos |-> None]

\* an iterator that walks the map from its greatest key down
IntoIterNext_Descending(i) ==
    LET left == {k \in DOMAIN i.map : i.pos = None \/ StrLess(k, i.pos[1])}
    IN  IF left = {} THEN [item |-> None, iter |-> i]
        ELSE LET key == CHOOSE x \in left : \A y \in left : StrLeq(y, x)
             IN  [item |-> Some(<<key, i.map[key]>>),
                  iter |-> [i EXCEPT !.pos = Some(key)]]

\* btree_map::IntoIter::next: the entry of the least key not yet consumed
IntoIterNext(i) ==
    LET left == {k \in DOMAIN i.map : i.pos = None \/ StrLess(i.pos[1], k)}
    IN  IF left = {} THEN [item |-> None, iter |-> i]
        ELSE LET key == CHOOSE x \in left : \A y \in left : StrLeq(x, y)
             IN  [item |-> Some(<<key, i.map[key]>>),
                  iter |-> [i EXCEPT !.pos = Some(key)]]

\* iter_prefix(prefix): the MockPrefixIterator it returns
IterPrefix(d, prefix) ==
    [prefix    |-> S_subspace_slash \o KeyToString(prefix),
     db_prefix |-> S_subspace_slash,
     iter      |-> IntoIter(d)]

\* iter_results(): the MockPrefixIterator it returns
IterResults(d) ==
    [prefix    |-> S_results,
     db_prefix |-> S_results_slash,
     iter      |-> IntoIter(d)]

\* MockIterator::next: the first remaining entry whose key starts with the
\* prefix, consuming the entries before it
RECURSIVE MockIteratorNext(_)
MockIteratorNext(it) ==
    LET n == IntoIterNext(it.iter)
    IN  IF n.item = None THEN [item |-> None, it |-> it]
        ELSE LET key  == n.item[1][1]
                 rest == [it EXCEPT !.iter = n.iter]
             IN  IF starts_with(key, it.prefix)
                 THEN [item |-> n.item, it |-> rest]
                 ELSE MockIteratorNext(rest)

\* a next() that charges the length of the physical key
RECURSIVE PrefixIteratorNext_PhysicalGas(_)
PrefixIteratorNext_PhysicalGas(it) ==
    LET r == MockIteratorNext(it)
    IN  IF r.item = None THEN [item |-> None, it |-> r.it]
        ELSE LET key == r.item[1][1]
                 val == r.item[1][2]
                 k   == strip_prefix(key, it.db_prefix)
             IN  IF k # None
                 THEN [item |-> Some(<<k[1], val, Len(key) + Len(val)>>),
                       it   |-> r.it]
                 ELSE PrefixIteratorNext_PhysicalGas(r.it)

\* PrefixIterator<MockIterator>::next: (logical key, value, gas)
RECURSIVE PrefixIteratorNext(_)
PrefixIteratorNext(it) ==
    LET r == MockIteratorNext(it)
    IN  IF r.item = None THEN [item |-> None, it |-> r.it]
        ELSE LET key == r.item[1][1]
                 val == r.item[1][2]
                 k   == strip_prefix(key, it.db_prefix)
             IN  IF k # None
                 THEN [item |-> Some(<<k[1], val, Len(k[1]) + Len(val)>>),
                       it   |-> r.it]
                 ELSE PrefixIteratorNext(r.it)

-----------------------------------------------------------------------------
(* Bounds and inputs *)

\* write_block is called at most MaxBlocks times
MaxBlocks == 2

\* the block heights written: single digits, the digit-count changes 9 -> 10
\* and 19 -> 20, and heights whose decimal strings interleave (1, 10, 19, 2)
Heights == {0, 1, 2, 9, 10, 19}

\* application keys b/a, ab/c and a#: a segment that extends another key's
\* first segment, and a character ('#') that sorts below the separator
Keys == { << <<97>>, <<98>> >>, << <<97, 98>>, <<99>> >>, << <<97, 35>> >> }

\* iteration prefixes: the empty key, a, a/b, ab and c
Prefixes == { <<>>, << <<97>> >>, << <<97>>, <<98>> >>, << <<97, 98>> >>,
              << <<99>> >> }

Values == { <<>>, <<7>>, <<7, 8>> }

\* the height argument of the subspace operations
SubHeights == {0, 7}

\* the BlockStateWrite of the v-th write_block call, at height h: every
\* field differs from every other field and from every other call's
Block(h, v, withHeader) ==
    [merkle_tree_stores |->
         [st \in StoreTypeSet |->
              IF st = StoreTypes[1] THEN [root |-> 40 + v, store |-> 60 + v]
              ELSE [root |-> 50 + v, store |-> 70 + v]],
     header |-> IF withHeader THEN Some(130 + v) ELSE None,
     hash |-> 10 + v,
     height |-> h,
     epoch |-> 20 + v,
     pred_epochs |-> 30 + v,
     next_epoch_min_start_height |-> 80 + v,
     next_epoch_min_start_time |-> 90 + v,
     address_gen |-> 110 + v,
     results |-> 120 + v]

-----------------------------------------------------------------------------
(* State *)

\* hist: the write_block calls so far: their number, whether their heights
\* were strictly increasing, the last block written, the heights written,
\* and whether write_block was the last call.
\* wb: the write batch: whether one is open, and whether an operation was
\* staged on the batch created last.
\* last: the last call, its arguments and its result. direct is the result
\* of the non-batched form of a batch call on the shadow map; prev is the
\* value the written or deleted key had before the call; afterWrite tells
\* that the call before read_last_block was write_block.
Call(op, key, value, height, ret, direct, prev, afterWrite) ==
    [op |-> op, key |-> key, value |-> value, height |-> height, ret |-> ret,
     direct |-> direct, prev |-> prev, afterWrite |-> afterWrite]

NoIter ==
    [open |-> FALSE, arg |-> <<>>, results |-> FALSE,
     it |-> [prefix |-> <<>>, db_prefix |-> <<>>, iter |-> IntoIter(EmptyDB)],
     out |-> <<>>, done |-> FALSE, snap |-> EmptyDB]

\* acct: per application key, the deltas the writes have returned minus
\* the sizes the deletes have returned.
\* borrow: the borrow flag of the RefCell around the map: 0 not borrowed,
\* n > 0 shared by n readers, negative borrowed mutably.
\* thr: the threads that share the backend by reference: the call a thread
\* runs, its position in it (pc), the index of its next lookup (left), the
\* borrow flag it has loaded (tmp) and its result.
Threads == {1, 2}

Idle ==
    [pc |-> "idle", op |-> "none", key |-> <<>>, value |-> <<>>, height |-> 0,
     left |-> 0, tmp |-> 0, ret |-> Ok(None)]

\* MockDB::open: Self::default(), an empty map
Init ==
    /\ db = EmptyDB
    /\ shadow = EmptyDB
    /\ last = Call("open", <<>>, <<>>, 0, Ok(None), Ok(None), None, FALSE)
    /\ hist = [n |-> 0, incr |-> TRUE, lastW |-> None, heights |-> {},
               justWritten |-> FALSE]
    /\ sub = [k \in Keys |-> None]
    /\ wb = [open |-> FALSE, staged |-> FALSE]
    /\ iter = NoIter
    /\ borrow = 0
    /\ thr = [t \in Threads |-> Idle]
    /\ acct = [k \in Keys |-> 0]

NotJustWritten == [hist EXCEPT !.justWritten = FALSE]

-----------------------------------------------------------------------------
(* Actions *)

flush ==
    /\ last' = Call("flush", <<>>, <<>>, 0, Ok(None), Ok(None), None, FALSE)
    /\ hist' = NotJustWritten
    /\ UNCHANGED <<db, shadow, sub, wb, iter>>
    /\ UNCHANGED <<borrow, thr>>
    /\ UNCHANGED acct

\* a write_block that keeps the block data of the latest height only
write_block_Prune(state) ==
    /\ hist.n < MaxBlocks
    /\ db' = WriteBlock([x \in {k \in DOMAIN db :
                                   starts_with(k, S_subspace_slash)} |->
                              db[x]], state)
    /\ shadow' = WriteBlock(shadow, state)
    /\ last' = Call("write_block", <<>>, <<>>, state.height, Ok(None),
                    Ok(None), None, FALSE)
    /\ hist' = [n |-> hist.n + 1,
                incr |-> /\ hist.incr
                         /\ (hist.lastW # None =>
                                 hist.lastW[1].height < state.height),
                lastW |-> Some(state),
                heights |-> hist.heights \cup {state.height},
                justWritten |-> TRUE]
    /\ UNCHANGED <<sub, wb, iter>>
    /\ UNCHANGED <<borrow, thr>>
    /\ UNCHANGED acct

write_block(state) ==
    /\ hist.n < MaxBlocks
    /\ db' = WriteBlock(db, state)
    /\ shadow' = WriteBlock(shadow, state)
    /\ last' = Call("write_block", <<>>, <<>>, state.height, Ok(None),
                    Ok(None), None, FALSE)
    /\ hist' = [n |-> hist.n + 1,
                incr |-> /\ hist.incr
                         /\ (hist.lastW # None =>
                                 hist.lastW[1].height < state.height),
                lastW |-> Some(state),
                heights |-> hist.heights \cup {state.height},
                justWritten |-> TRUE]
    /\ UNCHANGED <<sub, wb, iter>>
    /\ UNCHANGED <<borrow, thr>>
    /\ UNCHANGED acct

read_last_block ==
    /\ last' = Call("read_last_block", <<>>, <<>>, 0, ReadLastBlock(db),
                    Ok(None), None, hist.justWritten)
    /\ hist' = NotJustWritten
    /\ UNCHANGED <<db, shadow, sub, wb, iter>>
    /\ UNCHANGED <<borrow, thr>>
    /\ UNCHANGED acct

read_block_header(height) ==
    /\ last' = Call("read_block_header", <<>>, <<>>, height,
                    ReadBlockHeader(db, height), Ok(None), None, FALSE)
    /\ hist' = NotJustWritten
    /\ UNCHANGED <<db, shadow, sub, wb, iter>>
    /\ UNCHANGED <<borrow, thr>>
    /\ UNCHANGED acct

read_merkle_tree_stores(height) ==
    /\ last' = Call("read_merkle_tree_stores", <<>>, <<>>, height,
                    ReadMerkleTreeStores(db, height), Ok(None), None, FALSE)
    /\ hist' = NotJustWritten
    /\ UNCHANGED <<db, shadow, sub, wb, iter>>
    /\ UNCHANGED <<borrow, thr>>
    /\ UNCHANGED acct

read_subspace_val(key) ==
    /\ last' = Call("read_subspace_val", key, <<>>, 0,
                    ReadSubspaceVal(db, key), Ok(None), None, FALSE)
    /\ hist' = NotJustWritten
    /\ UNCHANGED <<db, shadow, sub, wb, iter>>
    /\ UNCHANGED <<borrow, thr>>
    /\ UNCHANGED acct

write_subspace_val(height, key, value) ==
    /\ LET r == WriteSubspaceVal(db, key, value)
           q == WriteSubspaceVal(shadow, key, value)
       IN  /\ db' = r.db
           /\ shadow' = q.db
           /\ acct' = [acct EXCEPT ![key] = @ + r.ret.val]
           /\ last' = Call("write_subspace_val", key, value, height, r.ret,
                           q.ret, sub[key], FALSE)
    /\ sub' = [sub EXCEPT ![key] = Some(value)]
    /\ hist' = NotJustWritten
    /\ UNCHANGED <<wb, iter>>
    /\ UNCHANGED <<borrow, thr>>

delete_subspace_val(height, key) ==
    /\ LET r == DeleteSubspaceVal(db, key)
           q == DeleteSubspaceVal(shadow, key)
       IN  /\ db' = r.db
           /\ shadow' = q.db
           /\ acct' = [acct EXCEPT ![key] = @ - r.ret.val]
           /\ last' = Call("delete_subspace_val", key, <<>>, height, r.ret,
                           q.ret, sub[key], FALSE)
    /\ sub' = [sub EXCEPT ![key] = None]
    /\ hist' = NotJustWritten
    /\ UNCHANGED <<wb, iter>>
    /\ UNCHANGED <<borrow, thr>>

\* DB::batch(): a new MockDBWriteBatch
batch ==
    /\ ~wb.open
    /\ wb' = [open |-> TRUE, staged |-> FALSE]
    /\ last' = Call("batch", <<>>, <<>>, 0, Ok(None), Ok(None), None, FALSE)
    /\ hist' = NotJustWritten
    /\ UNCHANGED <<db, shadow, sub, iter>>
    /\ UNCHANGED <<borrow, thr>>
    /\ UNCHANGED acct

batch_write_subspace_val(height, key, value) ==
    /\ wb.open
    /\ LET r == BatchWriteSubspaceVal(db, key, value)
           q == WriteSubspaceVal(shadow, key, value)
       IN  /\ db' = r.db
           /\ shadow' = q.db
           /\ acct' = [acct EXCEPT ![key] = @ + r.ret.val]
           /\ last' = Call("batch_write_subspace_val", key, value, height,
                           r.ret, q.ret, sub[key], FALSE)
    /\ sub' = [sub EXCEPT ![key] = Some(value)]
    /\ hist' = NotJustWritten
    /\ wb' = [wb EXCEPT !.staged = TRUE]
    /\ UNCHANGED iter
    /\ UNCHANGED <<borrow, thr>>

batch_delete_subspace_val(height, key) ==
    /\ wb.open
    /\ LET r == BatchDeleteSubspaceVal(db, key)
           q == DeleteSubspaceVal(shadow, key)
       IN  /\ db' = r.db
           /\ shadow' = q.db
           /\ acct' = [acct EXCEPT ![key] = @ - r.ret.val]
           /\ last' = Call("batch_delete_subspace_val", key, <<>>, height,
                           r.ret, q.ret, sub[key], FALSE)
    /\ sub' = [sub EXCEPT ![key] = None]
    /\ hist' = NotJustWritten
    /\ wb' = [wb EXCEPT !.staged = TRUE]
    /\ UNCHANGED iter
    /\ UNCHANGED <<borrow, thr>>

exec_batch ==
    /\ wb.open
    /\ LET r == ExecBatch(db)
       IN  /\ db' = r.db
           /\ last' = Call("exec_batch", <<>>, <<>>, 0, r.ret, Ok(None), None,
                           FALSE)
    /\ wb' = [wb EXCEPT !.open = FALSE]
    /\ hist' = NotJustWritten
    /\ UNCHANGED <<shadow, sub, iter>>
    /\ UNCHANGED <<borrow, thr>>
    /\ UNCHANGED acct

\* the write batch is dropped without exec_batch: MockDBWriteBatch holds
\* nothing
batch_drop ==
    /\ wb.open
    /\ wb' = [wb EXCEPT !.open = FALSE]
    /\ last' = Call("batch_drop", <<>>, <<>>, 0, Ok(None), Ok(None), None,
                    FALSE)
    /\ hist' = NotJustWritten
    /\ UNCHANGED <<db, shadow, sub, iter, borrow, thr, acct>>

iter_prefix(prefix) ==
    /\ iter' = [open |-> TRUE, arg |-> prefix, results |-> FALSE,
                it |-> IterPrefix(db, prefix), out |-> <<>>, done |-> FALSE,
                snap |-> db]
    /\ last' = Call("iter_prefix", prefix, <<>>, 0, Ok(None), Ok(None), None,
                    FALSE)
    /\ hist' = NotJustWritten
    /\ UNCHANGED <<db, shadow, sub, wb>>
    /\ UNCHANGED <<borrow, thr>>
    /\ UNCHANGED acct

iter_results ==
    /\ iter' = [open |-> TRUE, arg |-> <<>>, results |-> TRUE,
                it |-> IterResults(db), out |-> <<>>, done |-> FALSE,
                snap |-> db]
    /\ last' = Call("iter_results", <<>>, <<>>, 0, Ok(None), Ok(None), None,
                    FALSE)
    /\ hist' = NotJustWritten
    /\ UNCHANGED <<db, shadow, sub, wb>>
    /\ UNCHANGED <<borrow, thr>>
    /\ UNCHANGED acct

\* next() on an iterator that reads the map as it is now, not its clone
iter_next_Live ==
    /\ iter.open
    /\ ~iter.done
    /\ LET r == PrefixIteratorNext([iter.it EXCEPT !.iter.map = db])
       IN  /\ iter' = [iter EXCEPT !.it = r.it,
                                   !.out = IF r.item = None THEN @
                                           ELSE Append(@, r.item[1]),
                                   !.done = (r.item = None)]
           /\ last' = Call("next", <<>>, <<>>, 0, Ok(r.item), Ok(None), None,
                           FALSE)
    /\ hist' = NotJustWritten
    /\ UNCHANGED <<db, shadow, sub, wb>>
    /\ UNCHANGED <<borrow, thr>>
    /\ UNCHANGED acct

\* one call of next() on the iterator
iter_next ==
    /\ iter.open
    /\ ~iter.done
    /\ LET r == PrefixIteratorNext(iter.it)
       IN  /\ iter' = [iter EXCEPT !.it = r.it,
                                   !.out = IF r.item = None THEN @
                                           ELSE Append(@, r.item[1]),
                                   !.done = (r.item = None)]
           /\ last' = Call("next", <<>>, <<>>, 0, Ok(r.item), Ok(None), None,
                           FALSE)
    /\ hist' = NotJustWritten
    /\ UNCHANGED <<db, shadow, sub, wb>>
    /\ UNCHANGED <<borrow, thr>>
    /\ UNCHANGED acct

\* the iterator is dropped
iter_drop ==
    /\ iter.open
    /\ iter' = NoIter
    /\ last' = Call("drop", <<>>, <<>>, 0, Ok(None), Ok(None), None, FALSE)
    /\ hist' = NotJustWritten
    /\ UNCHANGED <<db, shadow, sub, wb>>
    /\ UNCHANGED <<borrow, thr>>
    /\ UNCHANGED acct

-----------------------------------------------------------------------------
(* The backend shared by reference between threads (unsafe impl Sync) *)

\* The operations that take &self reach the map through RefCell::borrow and
\* RefCell::borrow_mut. The borrow flag is a plain Cell: a thread loads it,
\* tests it and stores the new count, and does the same again when the
\* borrow is dropped. Shared between threads these are unsynchronized
\* accesses, and each load and each store is a step of its own.

\* the panic of RefCell::borrow
BorrowPanic == [kind |-> "Panic", val |-> "already mutably borrowed"]

\* the panic of RefCell::borrow_mut
BorrowMutPanic == [kind |-> "Panic", val |-> "already borrowed"]

MutOps == {"batch_write_subspace_val", "batch_delete_subspace_val"}

\* the keys read_merkle_tree_stores(height) looks up, in its order
TreePaths(height) ==
    LET tree_key == push(HeightKey(height), S_tree)
    IN  [i \in 1..(2 * Len(StoreTypes)) |->
            KeyToString(push(push(tree_key, StoreTypes[(i + 1) \div 2]),
                             IF i % 2 = 1 THEN S_root ELSE S_store))]

\* the result of call c run alone on map d
Alone(d, c) ==
    CASE c.op = "read_subspace_val" -> ReadSubspaceVal(d, c.key)
      [] c.op = "read_block_header" -> ReadBlockHeader(d, c.height)
      [] c.op = "read_merkle_tree_stores" -> ReadMerkleTreeStores(d, c.height)
      [] c.op = "iter_prefix" -> Ok(IterPrefix(d, c.key))
      [] c.op = "iter_results" -> Ok(IterResults(d))
      [] c.op = "batch_write_subspace_val" ->
             BatchWriteSubspaceVal(d, c.key, c.value).ret
      [] c.op = "batch_delete_subspace_val" ->
             BatchDeleteSubspaceVal(d, c.key).ret

\* the map after call c run alone on map d
AloneDb(d, c) ==
    CASE c.op = "batch_write_subspace_val" ->
             BatchWriteSubspaceVal(d, c.key, c.value).db
      [] c.op = "batch_delete_subspace_val" ->
             BatchDeleteSubspaceVal(d, c.key).db
      [] OTHER -> d

\* a value that no call writes
TornValue == <<0>>

\* what a lookup or a clone of the map can return when it races with a
\* mutation of the map, besides the result it returns alone
Torn(c) ==
    IF c.op = "read_subspace_val" THEN Ok(Some(TornValue))
    ELSE Alone(EmptyDB, c)

\* another thread is at its access of the map and one of the two accesses
\* is an insert or a remove
Racing(t) ==
    \E u \in Threads \ {t} :
        /\ thr[u].pc = "access"
        /\ thr[t].op \in MutOps \/ thr[u].op \in MutOps

\* thread t enters call c
call(t, c) ==
    /\ thr[t].pc = "idle"
    /\ thr' = [thr EXCEPT ![t] =
                  [Idle EXCEPT !.pc = "borrow", !.op = c.op, !.key = c.key,
                               !.value = c.value, !.height = c.height,
                               !.left = 1]]
    /\ UNCHANGED <<db, last, hist, sub, shadow, wb, iter, borrow>>
    /\ UNCHANGED acct

\* borrow() and borrow_mut(): the load of the flag
borrow_load(t) ==
    /\ thr[t].pc = "borrow"
    /\ thr' = [thr EXCEPT ![t].pc = "check", ![t].tmp = borrow]
    /\ UNCHANGED <<db, last, hist, sub, shadow, wb, iter, borrow>>
    /\ UNCHANGED acct

\* borrow() and borrow_mut(): the test of the loaded flag and the store of
\* the new one, or the panic
borrow_store(t) ==
    /\ thr[t].pc = "check"
    /\ IF thr[t].op \in MutOps
       THEN IF thr[t].tmp = 0
            THEN /\ borrow' = thr[t].tmp - 1
                 /\ thr' = [thr EXCEPT ![t].pc = "access"]
            ELSE /\ thr' = [thr EXCEPT ![t].pc = "panic",
                                       ![t].ret = BorrowMutPanic]
                 /\ UNCHANGED borrow
       ELSE IF thr[t].tmp + 1 > 0
            THEN /\ borrow' = thr[t].tmp + 1
                 /\ thr' = [thr EXCEPT ![t].pc = "access"]
            ELSE /\ thr' = [thr EXCEPT ![t].pc = "panic",
                                       ![t].ret = BorrowPanic]
                 /\ UNCHANGED borrow
    /\ UNCHANGED <<db, last, hist, sub, shadow, wb, iter>>
    /\ UNCHANGED acct

\* the access of the map under the borrow: get, clone, insert or remove.
\* read_merkle_tree_stores returns at its first missing entry or after its
\* last lookup. An access that races with a mutation is a data race on the
\* map: a read returns its result or a torn one, an insert or remove takes
\* effect or is lost.
access(t) ==
    /\ thr[t].pc = "access"
    /\ IF thr[t].op \in MutOps
       THEN /\ \E applied \in (IF Racing(t) THEN BOOLEAN ELSE {TRUE}) :
                   db' = IF applied THEN AloneDb(db, thr[t]) ELSE db
            /\ thr' = [thr EXCEPT ![t].pc = "drop", ![t].left = 0,
                                  ![t].ret = Alone(db, thr[t])]
       ELSE /\ UNCHANGED db
            /\ IF /\ thr[t].op = "read_merkle_tree_stores"
                  /\ thr[t].left < Len(TreePaths(thr[t].height))
                  /\ TreePaths(thr[t].height)[thr[t].left] \in DOMAIN db
               THEN thr' = [thr EXCEPT ![t].pc = "drop",
                                       ![t].left = thr[t].left + 1]
               ELSE \E r \in (IF Racing(t)
                              THEN {Alone(db, thr[t]), Torn(thr[t])}
                              ELSE {Alone(db, thr[t])}) :
                        thr' = [thr EXCEPT ![t].pc = "drop", ![t].left = 0,
                                           ![t].ret = r]
    /\ UNCHANGED <<last, hist, sub, shadow, wb, iter, borrow>>
    /\ UNCHANGED acct

\* the drop of the Ref or RefMut: the load of the flag
drop_load(t) ==
    /\ thr[t].pc = "drop"
    /\ thr' = [thr EXCEPT ![t].pc = "dropping", ![t].tmp = borrow]
    /\ UNCHANGED <<db, last, hist, sub, shadow, wb, iter, borrow>>
    /\ UNCHANGED acct

\* the drop of the Ref or RefMut: the store of the flag; the call returns
\* or goes on to its next lookup
drop_store(t) ==
    /\ thr[t].pc = "dropping"
    /\ borrow' = IF thr[t].op \in MutOps THEN thr[t].tmp + 1
                 ELSE thr[t].tmp - 1
    /\ thr' = [thr EXCEPT ![t].pc = IF thr[t].left = 0 THEN "done"
                                    ELSE "borrow"]
    /\ UNCHANGED <<db, last, hist, sub, shadow, wb, iter>>
    /\ UNCHANGED acct

\* every thread has returned or panicked
AllReturned == \A t \in Threads : thr[t].pc \in {"done", "panic"}

ReadersOnly == \A t \in Threads : thr[t].op \notin MutOps

\* the application key and the values of the calls of the threads
SharedKey == << <<97>>, <<98>> >>

SharedValue == <<7>>

LaterValue == <<7, 8>>

\* write_subspace_val (&mut self) after the threads have returned: its
\* borrow_mut panics unless the flag says "not borrowed"
later_write ==
    /\ AllReturned
    /\ ReadersOnly
    /\ last.op = "open"
    /\ IF borrow = 0 THEN write_subspace_val(0, SharedKey, LaterValue)
       ELSE /\ last' = Call("write_subspace_val", SharedKey, LaterValue, 0,
                            BorrowMutPanic, Ok(None), sub[SharedKey], FALSE)
            /\ UNCHANGED <<db, hist, sub, shadow, wb, iter, borrow, thr, acct>>

-----------------------------------------------------------------------------
(* Specifications *)

\* the subspace operations and their batch forms, with a block committed
\* in between
Next ==
    \/ \E h \in SubHeights, k \in Keys, v \in Values :
           write_subspace_val(h, k, v)
    \/ \E h \in SubHeights, k \in Keys : delete_subspace_val(h, k)
    \/ batch
    \/ \E h \in SubHeights, k \in Keys, v \in Values :
           batch_write_subspace_val(h, k, v)
    \/ \E h \in SubHeights, k \in Keys : batch_delete_subspace_val(h, k)
    \/ exec_batch
    \/ \E k \in Keys : read_subspace_val(k)
    \/ write_block(Block(1, hist.n + 1, TRUE))

Spec == Init /\ [][Next]_vars

\* the block operations
NextBlock ==
    \/ \E h \in Heights, withHeader \in BOOLEAN :
           write_block(Block(h, hist.n + 1, withHeader))
    \/ read_last_block
    \/ \E h \in Heights : read_block_header(h)
    \/ \E h \in Heights : read_merkle_tree_stores(h)
    \/ flush

SpecBlock == Init /\ [][NextBlock]_vars

\* Iteration over a map that subspace writes and deletes fill and change
\* while no iterator is alive.
\* The backend starts empty or with the blocks of heights 1 and 10
\* committed.
TwoBlocks == <<Block(1, 1, TRUE), Block(10, 2, TRUE)>>

InitIter ==
    /\ \/ /\ db = EmptyDB
          /\ hist = [n |-> 0, incr |-> TRUE, lastW |-> None, heights |-> {},
                     justWritten |-> FALSE]
       \/ /\ db = WriteBlock(WriteBlock(EmptyDB, TwoBlocks[1]), TwoBlocks[2])
          /\ hist = [n |-> 2, incr |-> TRUE, lastW |-> Some(TwoBlocks[2]),
                     heights |-> {1, 10}, justWritten |-> FALSE]
    /\ shadow = db
    /\ last = Call("open", <<>>, <<>>, 0, Ok(None), Ok(None), None, FALSE)
    /\ sub = [k \in Keys |-> None]
    /\ wb = [open |-> FALSE, staged |-> FALSE]
    /\ iter = NoIter
    /\ borrow = 0
    /\ thr = [t \in Threads |-> Idle]
    /\ acct = [k \in Keys |-> 0]

NextIter ==
    \/ ~iter.open /\ \E k \in Keys, v \in Values :
                          write_subspace_val(0, k, v)
    \/ ~iter.open /\ \E k \in Keys : delete_subspace_val(0, k)
    \/ \E p \in Prefixes : iter_prefix(p)
    \/ iter_results
    \/ iter_next
    \/ iter_drop

SpecIter == InitIter /\ [][NextIter]_vars

\* read_last_block as a function of the map: the stores a commit of one or
\* two blocks leaves, with up to MaxLost entries missing and possibly one
\* entry more under the latest height.
MaxLost == 2

\* a block at height 1, a block at height 9, and blocks at heights 10 and 1
\* written in this order
StoreBases ==
    { WriteBlock(EmptyDB, Block(1, 1, TRUE)),
      WriteBlock(EmptyDB, Block(9, 1, TRUE)),
      WriteBlock(WriteBlock(EmptyDB, Block(10, 1, TRUE)), Block(1, 2, TRUE)) }

\* the entries "h/x", "h/", "h/tree" and "h/tree/base/x"
StrayPaths(h) ==
    LET prefix == ToDecimal(h) \o S_sep
    IN  { prefix \o <<120>>,
          prefix,
          prefix \o S_tree,
          prefix \o S_tree \o S_sep \o StoreTypes[1] \o S_sep \o <<120>> }

StoreStates ==
    UNION { UNION { { [x \in DOMAIN base \ lost |-> base[x]] } \cup
                    { Insert([x \in DOMAIN base \ lost |-> base[x]], path,
                             encode(7)) :
                          path \in StrayPaths(decode(base[S_height])) } :
                    lost \in { L \in SUBSET DOMAIN base :
                                   Cardinality(L) <= MaxLost } } :
            base \in StoreBases }

InitStore ==
    /\ db \in StoreStates
    /\ shadow = db
    /\ last = Call("open", <<>>, <<>>, 0, Ok(None), Ok(None), None, FALSE)
    /\ hist = [n |-> 0, incr |-> TRUE, lastW |-> None, heights |-> {},
               justWritten |-> FALSE]
    /\ sub = [k \in Keys |-> None]
    /\ wb = [open |-> FALSE, staged |-> FALSE]
    /\ iter = NoIter
    /\ borrow = 0
    /\ thr = [t \in Threads |-> Idle]
    /\ acct = [k \in Keys |-> 0]

NextStore ==
    \/ read_last_block
    \/ flush

SpecStore == InitStore /\ [][NextStore]_vars

\* Every operation of the backend, on application keys that spell the
\* names of block metadata: height, 1/hash, results/1 and tree.
ReservedKeys ==
    { <<S_height>>, <<ToDecimal(1), S_hash>>, <<S_results, ToDecimal(1)>>,
      <<S_tree>> }

ReservedPrefixes == { <<>>, <<S_results>> }

ReservedValues == { <<>>, <<7>> }

InitKeySpace ==
    /\ db = EmptyDB
    /\ shadow = EmptyDB
    /\ last = Call("open", <<>>, <<>>, 0, Ok(None), Ok(None), None, FALSE)
    /\ hist = [n |-> 0, incr |-> TRUE, lastW |-> None, heights |-> {},
               justWritten |-> FALSE]
    /\ sub = [k \in ReservedKeys |-> None]
    /\ wb = [open |-> FALSE, staged |-> FALSE]
    /\ iter = NoIter
    /\ borrow = 0
    /\ thr = [t \in Threads |-> Idle]
    /\ acct = [k \in ReservedKeys |-> 0]

NextKeySpace ==
    \/ ~iter.open /\ \E k \in ReservedKeys, v \in ReservedValues :
                          write_subspace_val(0, k, v)
    \/ ~iter.open /\ \E k \in ReservedKeys : delete_subspace_val(0, k)
    \/ ~iter.open /\ batch
    \/ ~iter.open /\ \E k \in ReservedKeys, v \in ReservedValues :
                          batch_write_subspace_val(0, k, v)
    \/ ~iter.open /\ \E k \in ReservedKeys : batch_delete_subspace_val(0, k)
    \/ ~iter.open /\ exec_batch
    \/ ~iter.open /\ hist.n = 0 /\ write_block(Block(1, 1, TRUE))
    \/ read_last_block
    \/ flush
    \/ \E p \in ReservedPrefixes : iter_prefix(p)
    \/ iter_results
    \/ iter_next
    \/ iter_drop

SpecKeySpace == InitKeySpace /\ [][NextKeySpace]_vars

\* Two threads that share the backend by reference, each running one call
\* that takes &self, on a store with one block committed and one
\* application key written; then a write by the owner.
SharedCalls ==
    { [op |-> "read_subspace_val", key |-> SharedKey, value |-> <<>>,
       height |-> 0],
      [op |-> "read_block_header", key |-> <<>>, value |-> <<>>,
       height |-> 1],
      [op |-> "read_merkle_tree_stores", key |-> <<>>, value |-> <<>>,
       height |-> 1],
      [op |-> "iter_prefix", key |-> <<>>, value |-> <<>>, height |-> 0],
      [op |-> "iter_results", key |-> <<>>, value |-> <<>>, height |-> 0],
      [op |-> "batch_write_subspace_val", key |-> SharedKey,
       value |-> LaterValue, height |-> 0],
      [op |-> "batch_delete_subspace_val", key |-> SharedKey,
       value |-> <<>>, height |-> 0] }

SharedStore ==
    WriteSubspaceVal(WriteBlock(EmptyDB, Block(1, 1, TRUE)), SharedKey,
                     SharedValue).db

InitShared ==
    /\ db = SharedStore
    /\ shadow = db
    /\ last = Call("open", <<>>, <<>>, 0, Ok(None), Ok(None), None, FALSE)
    /\ hist = [n |-> 1, incr |-> TRUE, lastW |-> Some(Block(1, 1, TRUE)),
               heights |-> {1}, justWritten |-> FALSE]
    /\ sub = [k \in Keys |-> IF k = SharedKey THEN Some(SharedValue) ELSE None]
    /\ wb = [open |-> TRUE, staged |-> FALSE]
    /\ iter = NoIter
    /\ borrow = 0
    /\ thr = [t \in Threads |-> Idle]
    /\ acct = [k \in Keys |-> 0]

NextShared ==
    \/ \E t \in Threads, c \in SharedCalls : call(t, c)
    \/ \E t \in Threads : borrow_load(t)
    \/ \E t \in Threads : borrow_store(t)
    \/ \E t \in Threads : access(t)
    \/ \E t \in Threads : drop_load(t)
    \/ \E t \in Threads : drop_store(t)
    \/ later_write

SpecShared == InitShared /\ [][NextShared]_vars

\* The reads of block data on the stores a commit leaves, with the value
\* of one entry replaced by bytes that do not decode.
BadBytes == { <<>>, <<7, 8>> }

DecodeStates ==
    UNION { { [base EXCEPT ![k] = bad] : k \in DOMAIN base, bad \in BadBytes } :
            base \in StoreBases }

InitDecode ==
    /\ db \in DecodeStates
    /\ shadow = db
    /\ last = Call("open", <<>>, <<>>, 0, Ok(None), Ok(None), None, FALSE)
    /\ hist = [n |-> 0, incr |-> TRUE, lastW |-> None, heights |-> {},
               justWritten |-> FALSE]
    /\ sub = [k \in Keys |-> None]
    /\ wb = [open |-> FALSE, staged |-> FALSE]
    /\ iter = NoIter
    /\ borrow = 0
    /\ thr = [t \in Threads |-> Idle]
    /\ acct = [k \in Keys |-> 0]

NextDecode ==
    \/ read_last_block
    \/ \E h \in Heights : read_block_header(h)
    \/ \E h \in Heights : read_merkle_tree_stores(h)

SpecDecode == InitDecode /\ [][NextDecode]_vars

\* Iteration with the map changed while the iterator is alive: writes and
\* deletes, direct and through a batch, and a block commit.
SnapKeys == { << <<97>>, <<98>> >>, << <<97, 98>>, <<99>> >> }

SnapValues == { <<7>>, <<7, 8>> }

SnapPrefixes == { <<>>, << <<97>> >> }

InitSnap ==
    /\ db = EmptyDB
    /\ shadow = EmptyDB
    /\ last = Call("open", <<>>, <<>>, 0, Ok(None), Ok(None), None, FALSE)
    /\ hist = [n |-> 0, incr |-> TRUE, lastW |-> None, heights |-> {},
               justWritten |-> FALSE]
    /\ sub = [k \in Keys |-> None]
    /\ wb = [open |-> TRUE, staged |-> FALSE]
    /\ iter = NoIter
    /\ borrow = 0
    /\ thr = [t \in Threads |-> Idle]
    /\ acct = [k \in Keys |-> 0]

NextSnap ==
    \/ \E k \in SnapKeys, v \in SnapValues : write_subspace_val(0, k, v)
    \/ \E k \in SnapKeys : delete_subspace_val(0, k)
    \/ \E k \in SnapKeys, v \in SnapValues : batch_write_subspace_val(0, k, v)
    \/ \E k \in SnapKeys : batch_delete_subspace_val(0, k)
    \/ hist.n = 0 /\ write_block(Block(1, 1, TRUE))
    \/ \E p \in SnapPrefixes : iter_prefix(p)
    \/ iter_results
    \/ iter_next
    \/ iter_drop

SpecSnap == InitSnap /\ [][NextSnap]_vars

\* The write batch: its operations, reads and iterations before
\* exec_batch, exec_batch and the drop of the batch.
NextBatch ==
    \/ ~iter.open /\ batch
    \/ ~iter.open /\ \E k \in SnapKeys, v \in SnapValues :
                          batch_write_subspace_val(0, k, v)
    \/ ~iter.open /\ \E k \in SnapKeys : batch_delete_subspace_val(0, k)
    \/ ~iter.open /\ exec_batch
    \/ ~iter.open /\ batch_drop
    \/ \E k \in SnapKeys : read_subspace_val(k)
    \/ iter_prefix(<<>>)
    \/ iter_next
    \/ iter_drop

SpecBatch == Init /\ [][NextBatch]_vars

\* The block operations together with writes and deletes of the
\* application key 1/hash.
HistoryKey == <<ToDecimal(1), S_hash>>

HistoryHeights == {1, 2, 10}

NextHistory ==
    \/ \E h \in HistoryHeights, withHeader \in BOOLEAN :
           write_block(Block(h, hist.n + 1, withHeader))
    \/ read_last_block
    \/ \E h \in HistoryHeights : read_block_header(h)
    \/ \E h \in HistoryHeights : read_merkle_tree_stores(h)
    \/ write_subspace_val(0, HistoryKey, SharedValue)
    \/ delete_subspace_val(0, HistoryKey)

SpecHistory == InitKeySpace /\ [][NextHistory]_vars

-----------------------------------------------------------------------------
(* Properties of the block operations (SpecBlock) *)

\* a block read R reproduces the block written W in every field but header
SameBlock(R, W) ==
    /\ R.height = W.height
    /\ R.hash = W.hash
    /\ R.epoch = W.epoch
    /\ R.pred_epochs = W.pred_epochs
    /\ R.next_epoch_min_start_height = W.next_epoch_min_start_height
    /\ R.next_epoch_min_start_time = W.next_epoch_min_start_time
    /\ R.address_gen = W.address_gen
    /\ R.results = W.results
    /\ \A st \in StoreTypeSet :
           /\ R.merkle_tree_stores[st].root = W.merkle_tree_stores[st].root
           /\ R.merkle_tree_stores[st].store = W.merkle_tree_stores[st].store

ReadsBack(ret, W) ==
    /\ ret.kind = "Ok"
    /\ ret.val # None
    /\ SameBlock(ret.val[1], W)

\* C1 (round trip): a read_last_block that immediately follows write_block(W)
\* returns Ok(Some(R)) with every field of R but the header equal to W's.
C1_RoundTrip ==
    (last.op = "read_last_block" /\ last.afterWrite)
        => ReadsBack(last.ret, hist.lastW[1])

\* C2 (latest block wins): after write_block calls with strictly increasing
\* heights, read_last_block returns the block written last.
C2_LatestBlockWins ==
    (last.op = "read_last_block" /\ hist.n > 0 /\ hist.incr)
        => ReadsBack(last.ret, hist.lastW[1])

\* the physical key <height>/tree/<store type>/<leaf>
TreeEntry(height, st, leaf) ==
    ToDecimal(height) \o S_sep \o S_tree \o S_sep \o st \o S_sep \o leaf

TreesComplete(height) ==
    \A st \in StoreTypeSet :
        /\ TreeEntry(height, st, S_root) \in DOMAIN db
        /\ TreeEntry(height, st, S_store) \in DOMAIN db

C10_WitnessNone ==
    /\ last.op = "read_merkle_tree_stores"
    /\ last.ret.val = None
    /\ hist.n > 0

-----------------------------------------------------------------------------
(* Properties of the subspace operations (Spec) *)

WriteOps == {"write_subspace_val", "batch_write_subspace_val"}

DeleteOps == {"delete_subspace_val", "batch_delete_subspace_val"}

\* C3 (read your writes): read_subspace_val(k) returns the value of the most
\* recent write to k, None if k was never written or was deleted last; the
\* calls on other keys and write_block do not change it. (sub holds, per
\* key, the value of the most recent write or None after a delete.)
C3_ReadYourWrites ==
    /\ \A k \in Keys : ReadSubspaceVal(db, k) = Ok(sub[k])
    /\ last.op = "read_subspace_val" => last.ret = Ok(sub[last.key])

\* a read returned Some(empty value) with a block committed, another key
\* present and a third one absent
C3_Witness ==
    /\ last.op = "read_subspace_val"
    /\ last.ret = Ok(Some(<<>>))
    /\ hist.n > 0
    /\ \E k \in Keys : k # last.key /\ sub[k] # None
    /\ \E k \in Keys : sub[k] = None

\* C4 (batch equivalence): every batch call returns what the direct call
\* returns on a map that received the same sequence directly (shadow), and
\* when exec_batch returns the two maps are equal.
C4_BatchEquivalence ==
    /\ last.op \in {"batch_write_subspace_val", "batch_delete_subspace_val"}
           => last.ret = last.direct
    /\ last.op = "exec_batch" => (last.ret.kind = "Ok" /\ db = shadow)

\* exec_batch returned for a batch with staged operations, with entries
\* left in the map
C4_Witness ==
    /\ last.op = "exec_batch"
    /\ wb.staged
    /\ \E k \in Keys : sub[k] # None

\* C5 (delta): a write of a value of length L returns L for an absent key
\* and L - L1 over a value of length L1, whatever the height argument.
C5_Delta ==
    last.op \in WriteOps =>
        last.ret = Ok(Len(last.value)
                      - (IF last.prev = None THEN 0 ELSE Len(last.prev[1])))

\* an overwrite with a shorter value returned a negative delta, at height 7
C5_Witness ==
    /\ last.op \in WriteOps
    /\ last.prev # None
    /\ last.ret.val < 0
    /\ last.height = 7

\* the physical key subspace/<application key>
SubspaceEntry(key) == S_subspace_slash \o KeyToString(key)

\* C6 (delete): deleting a present key removes exactly its entry and returns
\* the length of the removed value; deleting an absent key returns 0 and
\* leaves every entry of the map unchanged.
C6_Delete ==
    [][last'.op \in DeleteOps =>
           IF SubspaceEntry(last'.key) \in DOMAIN db
           THEN /\ last'.ret = Ok(Len(db[SubspaceEntry(last'.key)]))
                /\ DOMAIN db' = DOMAIN db \ {SubspaceEntry(last'.key)}
                /\ \A x \in DOMAIN db' : db'[x] = db[x]
           ELSE /\ last'.ret = Ok(0)
                /\ db' = db]_vars

\* a delete of an absent key returned 0 on a map holding a block and
\* another key's entry
C6_Witness ==
    /\ last.op \in DeleteOps
    /\ last.prev = None
    /\ last.ret = Ok(0)
    /\ hist.n > 0
    /\ \E k \in Keys : sub[k] # None

-----------------------------------------------------------------------------
(* Properties of iteration (SpecIter). iter.snap is the map at the moment  *)
(* the iterator was created, iter.out the triples yielded so far, iter.done *)
(* tells that next() has returned None.                                     *)

\* key is under the prefix: its leading segments are the prefix's segments
Under(key, prefix) ==
    Len(prefix) <= Len(key) /\ SubSeq(key, 1, Len(prefix)) = prefix

\* the namespace the iterator strips
Namespace == IF iter.results THEN S_results_slash ELSE S_subspace_slash

Yielded == {iter.out[i] : i \in 1..Len(iter.out)}

NoTwice ==
    \A i, j \in 1..Len(iter.out) : i # j => iter.out[i][1] # iter.out[j][1]

\* C7 (prefix completeness): a full traversal of iter_prefix(P) yields
\* exactly one triple for each stored subspace entry whose key is under P,
\* and no other entry.
C7_PrefixCompleteness ==
    (iter.open /\ ~iter.results) =>
        LET under == {k \in Keys : /\ SubspaceEntry(k) \in DOMAIN iter.snap
                                   /\ Under(k, iter.arg)}
        IN  /\ NoTwice
            /\ \A t \in Yielded : \E k \in under : t[1] = KeyToString(k)
            /\ iter.done =>
                   \A k \in under : \E t \in Yielded : t[1] = KeyToString(k)

\* C8 (gas): every triple yielded is (physical key without the namespace,
\* stored value, length of that logical key + length of the value), and
\* the entries skipped add nothing: the costs of a full traversal sum up to
\* the sizes of the yielded entries alone.
RECURSIVE SumCost(_)
SumCost(out) == IF out = <<>> THEN 0 ELSE Head(out)[3] + SumCost(Tail(out))

RECURSIVE SumSizes(_)
SumSizes(S) ==
    IF S = {} THEN 0
    ELSE LET t == CHOOSE x \in S : TRUE
         IN  Len(t[1]) + Len(t[2]) + SumSizes(S \ {t})

C8_Gas ==
    iter.open =>
        /\ \A t \in Yielded :
               /\ Namespace \o t[1] \in DOMAIN iter.snap
               /\ t[2] = iter.snap[Namespace \o t[1]]
               /\ t[3] = Len(t[1]) + Len(t[2])
        /\ NoTwice
        /\ SumCost(iter.out) = SumSizes(Yielded)
        /\ (last.op = "next" /\ last.ret.val # None) =>
               last.ret.val[1] = iter.out[Len(iter.out)]

\* a traversal of the subspace came to its end after yielding two entries
\* and skipping the entries of a committed block
C8_Witness ==
    /\ iter.open
    /\ iter.done
    /\ ~iter.results
    /\ Len(iter.out) >= 2
    /\ S_height \in DOMAIN iter.snap
    /\ \E t \in Yielded : Len(t[2]) = 2

\* the order of logical keys: segment by segment, the first differing
\* segment decides, a proper segment-prefix comes first
RECURSIVE KeyLess(_, _)
KeyLess(a, b) ==
    IF b = <<>> THEN FALSE
    ELSE IF a = <<>> THEN TRUE
    ELSE IF Head(a) # Head(b) THEN StrLess(Head(a), Head(b))
    ELSE KeyLess(Tail(a), Tail(b))

Ascending ==
    \A i, j \in 1..Len(iter.out) :
        i < j => StrLess(Namespace \o iter.out[i][1],
                         Namespace \o iter.out[j][1])

\* C9 as stated (iteration order): the triples come in strictly ascending
\* order of the physical key, and that is the segment-by-segment order of
\* the logical keys, whatever the segments contain.
C9_Order ==
    iter.open =>
        /\ Ascending
        /\ \A i, j \in 1..Len(iter.out) :
               i < j => KeyLess(split(iter.out[i][1]), split(iter.out[j][1]))

\* no segment of the logical key holds a character below the separator
NoLowChar(k) == \A i \in 1..Len(k) : k[i] >= KEY_SEGMENT_SEPARATOR

\* C9 amended: the triples come in strictly ascending order of the physical
\* key; that is the segment-by-segment order of the logical keys for every
\* pair of keys without a character that sorts below the separator.
C9_OrderAmended ==
    iter.open =>
        /\ Ascending
        /\ \A i, j \in 1..Len(iter.out) :
               (i < j /\ NoLowChar(iter.out[i][1]) /\ NoLowChar(iter.out[j][1]))
                   => KeyLess(split(iter.out[i][1]), split(iter.out[j][1]))

\* a traversal yielded all three keys, a# before a/b
C9_Witness ==
    /\ iter.open
    /\ iter.done
    /\ Len(iter.out) = 3
    /\ iter.out[1][1] = <<97, 35>>
    /\ NoLowChar(iter.out[2][1])
    /\ NoLowChar(iter.out[3][1])

-----------------------------------------------------------------------------
(* Properties of read_last_block on incomplete stores (SpecStore) *)

\* the height the latest-height marker of map d holds
MarkerHeight(d) == decode(d[S_height])

\* the marker, the results of its height and both thresholds are in d
GlobalsPresent(d) ==
    /\ S_height \in DOMAIN d
    /\ S_results_slash \o ToDecimal(MarkerHeight(d)) \in DOMAIN d
    /\ S_next_epoch_min_start_height \in DOMAIN d
    /\ S_next_epoch_min_start_time \in DOMAIN d

ScalarNames == {S_hash, S_epoch, S_pred_epochs, S_address_gen}

ScalarPath(h, name) == ToDecimal(h) \o S_sep \o name

\* one of hash, epoch, pred_epochs, address_gen of the marker's height is
\* not in d
ScalarMissing(d) ==
    \E name \in ScalarNames : ScalarPath(MarkerHeight(d), name) \notin DOMAIN d

\* every entry of d is one that write_block writes
NoStray(d) == DOMAIN d \subseteq UNION {DOMAIN base : base \in StoreBases}

IsErr(ret, e) == ret.kind = "Err" /\ ret.val = e

\* C11: when the height marker, the results of its height and both epoch
\* thresholds are stored and one of hash, epoch, pred_epochs, address_gen
\* of that height is not, read_last_block returns Err(Temporary).
C11_ScalarsTemporary ==
    (/\ last.op = "read_last_block"
     /\ GlobalsPresent(db)
     /\ NoStray(db)
     /\ ScalarMissing(db))
        => IsErr(last.ret, Temporary)

\* the results of the marker's height or one of the epoch thresholds is not
\* in d
GlobalMissing(d) ==
    \/ S_results_slash \o ToDecimal(MarkerHeight(d)) \notin DOMAIN d
    \/ S_next_epoch_min_start_height \notin DOMAIN d
    \/ S_next_epoch_min_start_time \notin DOMAIN d

\* C12: when the height marker is stored and the results of its height, or
\* next_epoch_min_start_height, or next_epoch_min_start_time is not,
\* read_last_block returns Err(Temporary), not Ok(None).
C12_GlobalsTemporary ==
    (/\ last.op = "read_last_block"
     /\ S_height \in DOMAIN db
     /\ GlobalMissing(db))
        => IsErr(last.ret, Temporary)

\* C13: every Ok(Some(R)) of read_last_block holds, for every store type,
\* the root and the store stored for R.height; with a root or store entry
\* of the marker's height missing it does not return Ok(Some).
C13_NoPartialTrees ==
    (/\ last.op = "read_last_block"
     /\ last.ret.kind = "Ok"
     /\ last.ret.val # None)
        => LET R == last.ret.val[1]
           IN  /\ TreesComplete(R.height)
               /\ \A st \in StoreTypeSet :
                      /\ encode(R.merkle_tree_stores[st].root) =
                             db[TreeEntry(R.height, st, S_root)]
                      /\ encode(R.merkle_tree_stores[st].store) =
                             db[TreeEntry(R.height, st, S_store)]

\* the entries of d under "<marker height>/" that read_last_block must
\* reject: no second segment or one that is not tree, header, hash, epoch,
\* pred_epochs, address_gen; a tree entry with no store type segment or
\* with a fourth segment other than root and store
Unrecognised(d) ==
    { path \in DOMAIN d :
        /\ starts_with(path, ToDecimal(MarkerHeight(d)) \o S_sep)
        /\ LET segments == split(path)
           IN  \/ Len(segments) < 2
               \/ segments[2] \notin
                      ScalarNames \cup {S_tree, S_header}
               \/ /\ segments[2] = S_tree
                  /\ \/ Len(segments) < 3
                     \/ Len(segments) < 4
                     \/ segments[4] \notin {S_root, S_store} }

\* C14: when the marker, results and thresholds are stored and an entry
\* under "<marker height>/" is unrecognised, read_last_block returns the
\* UnknownKey error that names this entry.
C14_UnknownKey ==
    (/\ last.op = "read_last_block"
     /\ GlobalsPresent(db)
     /\ Unrecognised(db) # {})
        => /\ last.ret.kind = "Err"
           /\ last.ret.val.error = "UnknownKey"
           /\ last.ret.val.key \in Unrecognised(db)

-----------------------------------------------------------------------------
(* Properties of the key space (SpecKeySpace) *)

\* C15: as long as write_block has not been called, read_last_block returns
\* Ok(None), whatever subspace writes, deletes, batch operations, flush
\* calls and iterations came before.
C15_AbsentIsNone ==
    hist.n = 0 =>
        /\ ReadLastBlock(db).kind = "Ok"
        /\ ReadLastBlock(db).val = None
        /\ last.op = "read_last_block" =>
               last.ret.kind = "Ok" /\ last.ret.val = None

\* read_last_block has returned Ok(None) with no block written, the
\* application key "height" stored, a batch operation staged and an
\* iteration run to its end
C15_Witness ==
    /\ last.op = "read_last_block"
    /\ last.ret.kind = "Ok"
    /\ last.ret.val = None
    /\ hist.n = 0
    /\ sub[<<S_height>>] # None
    /\ wb.staged
    /\ iter.open
    /\ iter.done
    /\ Len(iter.out) > 0

\* the keys of the entries write_block writes for the block of height 1
MetadataKeys == DOMAIN WriteBlock(EmptyDB, Block(1, 1, TRUE))

\* the entries of map d that are block metadata
Metadata(d) == [x \in DOMAIN d \cap MetadataKeys |-> d[x]]

\* the entries of map d that are not block metadata
NotMetadata(d) == [x \in DOMAIN d \ MetadataKeys |-> d[x]]

\* the logical key, the value and the cost of the entry of application key k
SubspaceItem(k) ==
    <<KeyToString(k), sub[k][1], Len(KeyToString(k)) + Len(sub[k][1])>>

\* C17 (key-space discipline): after every step, each entry iter_prefix has
\* yielded is the entry of an application key as the subspace writes left
\* it, and the entries that are not block metadata are exactly those of
\* the application keys written; a subspace or batch write or delete
\* leaves every block-metadata entry as it was and write_block leaves
\* every other entry as it was.
C17_KeySpace ==
    [][/\ (iter'.open /\ ~iter'.results) =>
              \A i \in 1..Len(iter'.out) :
                  \E k \in ReservedKeys :
                      sub'[k] # None /\ iter'.out[i] = SubspaceItem(k)'
       /\ DOMAIN NotMetadata(db') =
              {SubspaceKey(k) : k \in {x \in ReservedKeys : sub'[x] # None}}
       /\ last'.op \in WriteOps \cup DeleteOps =>
              Metadata(db') = Metadata(db)
       /\ last'.op = "write_block" => NotMetadata(db') = NotMetadata(db)
      ]_vars

\* iter_prefix has yielded the entry of the application key results/1 and
\* no other, with a block committed and the application keys height and
\* 1/hash stored
C17_Witness ==
    /\ iter.open
    /\ ~iter.results
    /\ iter.done
    /\ Len(iter.out) = 1
    /\ hist.n > 0
    /\ sub[<<S_height>>] # None
    /\ sub[<<ToDecimal(1), S_hash>>] # None
    /\ sub[<<S_results, ToDecimal(1)>>] # None

-----------------------------------------------------------------------------
(* Properties of the block header and of the block commit (SpecBlock) *)

HeaderPath(height) == ToDecimal(height) \o S_sep \o S_header

\* read_block_header returns the header stored for the height asked, None
\* when there is none, whatever the height marker holds; the header of the
\* block written last is read back
HeaderReadsBack ==
    /\ last.op = "read_block_header" =>
           /\ last.ret.kind = "Ok"
           /\ (last.ret.val = None) = (HeaderPath(last.height) \notin DOMAIN db)
           /\ last.ret.val # None =>
                  encode(last.ret.val[1]) = db[HeaderPath(last.height)]
    /\ (hist.lastW # None /\ hist.lastW[1].header # None) =>
           /\ ReadBlockHeader(db, hist.lastW[1].height).kind = "Ok"
           /\ ReadBlockHeader(db, hist.lastW[1].height).val =
                  hist.lastW[1].header

\* C16 (header read): read_block_header(H) returns Ok(None) exactly when no
\* header is stored for H, at the marker's height or another; after
\* write_block(W) with a header it returns that header; after write_block(W)
\* without a header read_last_block returns every other field of W.
C16_HeaderRead ==
    /\ HeaderReadsBack
    /\ (/\ last.op = "read_last_block"
        /\ last.afterWrite
        /\ hist.lastW[1].header = None)
           => ReadsBack(last.ret, hist.lastW[1])

\* map d holds every entry of block W, with W's values
BlockStored(d, W) ==
    /\ Get(d, S_next_epoch_min_start_height) =
           Some(encode(W.next_epoch_min_start_height))
    /\ Get(d, S_next_epoch_min_start_time) =
           Some(encode(W.next_epoch_min_start_time))
    /\ \A st \in StoreTypeSet :
           /\ Get(d, TreeEntry(W.height, st, S_root)) =
                  Some(encode(W.merkle_tree_stores[st].root))
           /\ Get(d, TreeEntry(W.height, st, S_store)) =
                  Some(encode(W.merkle_tree_stores[st].store))
    /\ W.header # None =>
           Get(d, HeaderPath(W.height)) = Some(encode(W.header[1]))
    /\ Get(d, ScalarPath(W.height, S_hash)) = Some(encode(W.hash))
    /\ Get(d, ScalarPath(W.height, S_epoch)) = Some(encode(W.epoch))
    /\ Get(d, ScalarPath(W.height, S_pred_epochs)) =
           Some(encode(W.pred_epochs))
    /\ Get(d, ScalarPath(W.height, S_address_gen)) =
           Some(encode(W.address_gen))
    /\ Get(d, S_height) = Some(encode(W.height))
    /\ Get(d, S_results_slash \o ToDecimal(W.height)) =
           Some(encode(W.results))

\* when write_block(W) has returned, the store holds every entry of W
CommitComplete ==
    last.op = "write_block" =>
        last.ret.kind = "Ok" /\ BlockStored(db, hist.lastW[1])

\* C18 (atomic block commit): when write_block(W) returns, the store holds
\* every entry of W, and a read_last_block that follows and returns a block
\* returns the fields of W only, none of a block written before.
C18_AtomicCommit ==
    /\ CommitComplete
    /\ (/\ last.op = "read_last_block"
        /\ last.afterWrite
        /\ last.ret.kind = "Ok"
        /\ last.ret.val # None)
           => /\ SameBlock(last.ret.val[1], hist.lastW[1])
              /\ last.ret.val[1].merkle_tree_stores =
                     hist.lastW[1].merkle_tree_stores

-----------------------------------------------------------------------------
(* Properties of the shared backend (SpecShared) *)

\* C19 (concurrent readers): while the threads run read-only calls only,
\* no call panics, every call that has returned has the result it returns
\* alone, when all have returned the borrow flag is 0, and the write that
\* follows succeeds.
C19_ConcurrentReaders ==
    ReadersOnly =>
        /\ \A t \in Threads :
               /\ thr[t].pc # "panic"
               /\ thr[t].pc = "done" => thr[t].ret = Alone(SharedStore, thr[t])
        /\ AllReturned => borrow = 0
        /\ last.op = "write_subspace_val" => last.ret.kind = "Ok"

\* when a thread is at its insert or remove, no other thread is at an
\* access of the map
Exclusive ==
    \A t \in Threads :
        \A u \in Threads \ {t} :
            ~(/\ thr[t].pc = "access"
              /\ thr[u].pc = "access"
              /\ thr[t].op \in MutOps)

\* the values the key has held or a thread writes
WrittenValues ==
    LET writers == {u \in Threads : thr[u].op = "batch_write_subspace_val"}
    IN  {SharedValue} \cup {thr[u].value : u \in writers}

\* C20 (single writer discipline violated): with a batch write or delete
\* among the calls of the threads, the map is never accessed by two threads
\* at once, a read_subspace_val returns None or a value that was written,
\* and when all calls have returned the key holds what the mutation that
\* came last left.
C20_Robust ==
    /\ Exclusive
    /\ \A t \in Threads :
           (thr[t].pc = "done" /\ thr[t].op = "read_subspace_val") =>
               \/ thr[t].ret.val = None
               \/ thr[t].ret.val[1] \in WrittenValues
    /\ \A t \in Threads :
           (/\ AllReturned
            /\ thr[t].pc = "done"
            /\ thr[t].op \in MutOps
            /\ \A u \in Threads \ {t} : thr[u].op \notin MutOps)
               => db = AloneDb(SharedStore, thr[t])

-----------------------------------------------------------------------------
(* Properties of the reads on values that do not decode (SpecDecode) *)

\* the entry at path is in d and its value does not decode
Undecodable(d, path) == path \in DOMAIN d /\ ~decodable(d[path])

\* a root or store entry of the height is in d and does not decode
TreeUndecodable(d, height) ==
    \E st \in StoreTypeSet :
        \/ Undecodable(d, TreeEntry(height, st, S_root))
        \/ Undecodable(d, TreeEntry(height, st, S_store))

\* one of the values read_last_block has to decode does not decode: the
\* marker, or with the marker's height the results, a threshold, a root or
\* store or one of hash, epoch, pred_epochs, address_gen
LastBlockUndecodable(d) ==
    \/ Undecodable(d, S_height)
    \/ /\ S_height \in DOMAIN d
       /\ decodable(d[S_height])
       /\ \/ Undecodable(d, S_results_slash \o ToDecimal(MarkerHeight(d)))
          \/ Undecodable(d, S_next_epoch_min_start_height)
          \/ Undecodable(d, S_next_epoch_min_start_time)
          \/ TreeUndecodable(d, MarkerHeight(d))
          \/ \E name \in ScalarNames :
                 Undecodable(d, ScalarPath(MarkerHeight(d), name))

\* C21: a read of block data that meets a value it has to decode and that
\* does not decode returns an error, not Ok(Some) or Ok(None), and leaves
\* the store as it was.
C21_DecodingPropagated ==
    [][/\ db' = db
       /\ (last'.op = "read_last_block" /\ LastBlockUndecodable(db))
              => last'.ret.kind = "Err"
       /\ (/\ last'.op = "read_block_header"
           /\ Undecodable(db, HeaderPath(last'.height)))
              => last'.ret.kind = "Err"
       /\ (/\ last'.op = "read_merkle_tree_stores"
           /\ TreeUndecodable(db, last'.height))
              => last'.ret.kind = "Err"
      ]_vars

-----------------------------------------------------------------------------
(* Accounting of the subspace operations (Spec) *)

\* the byte length of the value stored for application key k, 0 if absent
StoredSize(k) ==
    IF SubspaceEntry(k) \in DOMAIN db THEN Len(db[SubspaceEntry(k)]) ELSE 0

RECURSIVE SumOver(_, _)
SumOver(f, S) ==
    IF S = {} THEN 0
    ELSE LET k == CHOOSE x \in S : TRUE IN f[k] + SumOver(f, S \ {k})

\* C22 (accounting conservation): for every application key the deltas the
\* writes and batch writes have returned minus the sizes the deletes and
\* batch deletes have returned equal the length of the value stored for
\* the key, 0 if it is absent; the totals over all keys are equal too.
C22_Conservation ==
    /\ \A k \in Keys : acct[k] = StoredSize(k)
    /\ SumOver(acct, Keys) = SumOver([k \in Keys |-> StoredSize(k)], Keys)

\* a batch delete has freed bytes after a block was committed, with a
\* value of two bytes and an empty value stored for two other keys
C22_Witness ==
    /\ last.op = "batch_delete_subspace_val"
    /\ last.ret.val > 0
    /\ hist.n > 0
    /\ \E k \in Keys : acct[k] = 2
    /\ \E k \in Keys : sub[k] = Some(<<>>)

-----------------------------------------------------------------------------
(* The height read_last_block reads (SpecBlock) *)

\* C23 (single-height read): every per-height field of a block that
\* read_last_block returns is the value of the entry of that field under
\* the height the marker holds: hash, epoch, pred_epochs, address_gen and
\* the root and store of every store type.
C23_SingleHeight ==
    (/\ last.op = "read_last_block"
     /\ last.ret.kind = "Ok"
     /\ last.ret.val # None)
        => LET R == last.ret.val[1]
               H == MarkerHeight(db)
           IN  /\ R.height = H
               /\ Get(db, ScalarPath(H, S_hash)) = Some(encode(R.hash))
               /\ Get(db, ScalarPath(H, S_epoch)) = Some(encode(R.epoch))
               /\ Get(db, ScalarPath(H, S_pred_epochs)) =
                      Some(encode(R.pred_epochs))
               /\ Get(db, ScalarPath(H, S_address_gen)) =
                      Some(encode(R.address_gen))
               /\ \A st \in StoreTypeSet :
                      /\ Get(db, TreeEntry(H, st, S_root)) =
                             Some(encode(R.merkle_tree_stores[st].root))
                      /\ Get(db, TreeEntry(H, st, S_store)) =
                             Some(encode(R.merkle_tree_stores[st].store))

-----------------------------------------------------------------------------
(* Iteration over a map that changes (SpecSnap) *)

\* the triples of the entries of map d under the iterator's prefix, in key
\* order
RECURSIVE Triples(_, _, _)
Triples(d, paths, db_prefix) ==
    IF paths = <<>> THEN <<>>
    ELSE LET key == strip_prefix(Head(paths), db_prefix)
         IN  (IF key = None THEN <<>>
              ELSE << <<key[1], d[Head(paths)],
                        Len(key[1]) + Len(d[Head(paths)])>> >>)
             \o Triples(d, Tail(paths), db_prefix)

\* what a traversal of the map as it was when the iterator was created
\* yields
SnapshotTriples ==
    Triples(iter.snap,
            SortedKeys({x \in DOMAIN iter.snap : starts_with(x, iter.it.prefix)}),
            iter.it.db_prefix)

\* C24 (snapshot isolation): the triples an iterator has yielded are the
\* first triples of the store as it was when the iterator was created,
\* and all of them when the traversal is finished, whatever writes,
\* deletes, batch operations and block commits came in between; an
\* iterator created after them starts from the store as it is then.
C24_Snapshot ==
    /\ iter.open =>
           /\ Len(iter.out) <= Len(SnapshotTriples)
           /\ iter.out = SubSeq(SnapshotTriples, 1, Len(iter.out))
           /\ iter.done => iter.out = SnapshotTriples
    /\ last.op \in {"iter_prefix", "iter_results"} => iter.snap = db

\* a traversal has finished with two triples of which the store, changed
\* since the iterator was created, holds neither as it was yielded
C24_Witness ==
    /\ iter.open
    /\ ~iter.results
    /\ iter.done
    /\ Len(iter.out) = 2
    /\ iter.snap # db
    /\ hist.n > 0
    /\ \A i \in 1..2 :
           Get(db, S_subspace_slash \o iter.out[i][1]) # Some(iter.out[i][2])

-----------------------------------------------------------------------------
(* The write batch (SpecBatch) *)

\* the triple iter_prefix yields for application key k
BatchItem(k) ==
    <<KeyToString(k), sub[k][1], Len(KeyToString(k)) + Len(sub[k][1])>>

\* C25 (immediate batch visibility): a batch write or delete has changed
\* the store when it returns; read_subspace_val and iter_prefix return what
\* the batch calls so far have left, before exec_batch as after it;
\* exec_batch returns Ok and leaves the store as it was, and so does the
\* drop of a batch.
C25_BatchVisible ==
    [][/\ last'.op = "batch_write_subspace_val" =>
              Get(db', SubspaceEntry(last'.key)) = Some(last'.value)
       /\ last'.op = "batch_delete_subspace_val" =>
              SubspaceEntry(last'.key) \notin DOMAIN db'
       /\ last'.op = "read_subspace_val" =>
              /\ last'.ret.kind = "Ok"
              /\ last'.ret.val = sub[last'.key]
       /\ iter'.open =>
              /\ \A i \in 1..Len(iter'.out) :
                     \E k \in SnapKeys :
                         sub'[k] # None /\ iter'.out[i] = BatchItem(k)'
              /\ iter'.done =>
                     \A k \in SnapKeys :
                         sub'[k] # None =>
                             \E i \in 1..Len(iter'.out) :
                                 iter'.out[i] = BatchItem(k)'
       /\ last'.op \in {"exec_batch", "batch_drop"} =>
              /\ last'.ret.kind = "Ok"
              /\ db' = db
      ]_vars

\* before exec_batch, a traversal has yielded the two entries the batch
\* calls have written
C25_Witness ==
    /\ wb.open
    /\ wb.staged
    /\ iter.open
    /\ iter.done
    /\ Len(iter.out) = 2

\* after the drop of a batch with staged writes, a read returns a value
\* the batch has written
C25_WitnessDrop ==
    /\ ~wb.open
    /\ wb.staged
    /\ last.op = "read_subspace_val"
    /\ last.ret.val # None

-----------------------------------------------------------------------------
(* Retention of block data (SpecHistory) *)

\* a full traversal of the iterator
RECURSIVE Drain(_)
Drain(it) ==
    LET r == PrefixIteratorNext(it)
    IN  IF r.item = None THEN <<>> ELSE <<r.item[1]>> \o Drain(r.it)

\* the triples of the traversal out whose key is the height h
ResultsIn(out, h) ==
    {out[i] : i \in {j \in 1..Len(out) : out[j][1] = ToDecimal(h)}}

\* the triples iter_results yields on map d for height h
ResultsOf(d, h) == ResultsIn(Drain(IterResults(d)), h)

\* the entries write_block may write for height h
OfBlock(x, h) ==
    \/ x \in {S_height, S_next_epoch_min_start_height,
              S_next_epoch_min_start_time}
    \/ starts_with(x, ToDecimal(h) \o S_sep)
    \/ x = S_results_slash \o ToDecimal(h)

====
